---- MODULE Spec2Model ----
(***************************************************************************)
(* Model of sbml2cellml:                                                   *)
(*   - convert_sbml2cellml (src/src/sbml2cellml/cellml2sbml.py)            *)
(*   - run_cellml_timecourse / plot_cellml_timecourse                      *)
(*     (src/src/cellml/cellml_simulator.py)                                *)
(* Both functions are straight-line sequential code; every loop iteration  *)
(* is one action, in the order the code executes it.                       *)
(***************************************************************************)
EXTENDS Integers, Sequences, FiniteSets, TLC

VARIABLES
    m_sbml,          \* the SBML model read from sbml_path (isModel = FALSE: doc.getModel() is None)
    pc,              \* position in convert_sbml2cellml
    i,               \* index of the running for-loop
    m_cellml,        \* the libcellml.Model (exists = FALSE before line 61)
    component,       \* the libcellml.Component "sbml": its variables and math
    cdict,           \* compartment id -> processed size
    species_types,   \* species id -> "amount" | "concentration"
    vinit,           \* the local vinit of the species loop (Unbound before its first assignment)
    arules,          \* assignment rules: variable -> formula
    rrules,          \* rate rules: variable -> formula
    reaction_terms,  \* species id -> accumulated term
    console,         \* what console.print has written (warnings and errors)
    raised,          \* the exception that ended the call, "none" while running
    args,            \* run_cellml_timecourse: the settings start, end, steps asked for
    sim_pc,          \* position in run_cellml_timecourse
    file,            \* libopencor.File: its issues
    document,        \* libopencor.SedDocument: its issues and its simulations
    simulation,      \* the local SedUniformTimeCourse object of line 54
    instance,        \* the instance: its issues, the settings it runs with, its tasks
    k,               \* index of the state-variable loop
    data_dict,       \* column name -> values
    units,           \* column name -> unit
    stdout,          \* the lines printed by the stages
    stages,          \* the stages performed so far
    plotted,         \* the labels plot_cellml_timecourse has drawn
    sim_raised       \* the exception that ended the call, "none" otherwise

convVars == <<m_sbml, pc, i, m_cellml, component, cdict, species_types, vinit,
              arules, rrules, reaction_terms, console, raised>>

simVars == <<args, sim_pc, file, document, simulation, instance, k, data_dict, units,
             stdout, stages, plotted, sim_raised>>

vars == <<convVars, simVars>>

-----------------------------------------------------------------------------
(* Bounds of the model *)
MaxSpecies == 2
MaxReactions == 2
MaxEvents == 1
MaxStates == 2

CompartmentIds == <<"c1", "c2">>
ParameterIds == <<"p1">>
SpeciesIdPool == <<"s1", "s2", "s3", "s4">>
FormulaPool == <<"k1", "k2", "k3", "k4">>

-----------------------------------------------------------------------------
(* IEEE doubles, abstracted: NaN, +infinity, and the finite naturals *)
NaN == <<"nan", 0>>
Inf == <<"inf", 0>>
Fin(n) == <<"fin", n>>
Unbound == <<"unbound", 0>>   \* a Python local that has not been assigned
Unset == <<"unset", 0>>       \* a libcellml variable without initial value

isnan(x) == x[1] = "nan"
isinf(x) == x[1] = "inf"
IsZero(x) == x = Fin(0)

\* x * y in IEEE arithmetic: NaN is absorbing, 0 * inf is NaN
Mul(x, y) ==
    IF isnan(x) \/ isnan(y) THEN NaN
    ELSE IF (isinf(x) /\ IsZero(y)) \/ (IsZero(x) /\ isinf(y)) THEN NaN
    ELSE IF isinf(x) \/ isinf(y) THEN Inf
    ELSE Fin(x[2] * y[2])

-----------------------------------------------------------------------------
(* Python dicts: a sequence of <<key, value>> in insertion order *)
RECURSIVE DictIndex(_, _)
DictIndex(d, j) ==
    IF d = <<>> THEN 0
    ELSE IF d[Len(d)][1] = j THEN Len(d)
    ELSE DictIndex(SubSeq(d, 1, Len(d) - 1), j)

DictHas(d, j) == DictIndex(d, j) # 0
DictGet(d, j) == d[DictIndex(d, j)][2]
DictKeys(d) == {d[n][1] : n \in 1..Len(d)}
DictKeySeq(d) == [n \in 1..Len(d) |-> d[n][1]]
DictSet(d, j, v) ==
    IF DictHas(d, j)
    THEN [d EXCEPT ![DictIndex(d, j)] = <<j, v>>]
    ELSE Append(d, <<j, v>>)

-----------------------------------------------------------------------------
(* process_init_value: NaN becomes 1.0, everything else is returned as is *)
\* (variant: the NaN is passed on)
process_init_value_keepnan(value) == value

process_init_value(value) == IF isnan(value) THEN Fin(1) ELSE value

\* the warning process_init_value prints
NanWarning(sid, value) ==
    IF isnan(value) THEN <<[msg |-> "Initial value is nan", id |-> sid]>> ELSE <<>>

-----------------------------------------------------------------------------
(* The species loop body, lines 124-132 *)
SpeciesType(s) == IF s.hasOnlySubstanceUnits THEN "amount" ELSE "concentration"

\* does the evaluated branch read cdict[cid]?
ReadsCdict(s) ==
    \/ s.init = "amount" /\ ~s.hasOnlySubstanceUnits
    \/ s.init = "concentration" /\ s.hasOnlySubstanceUnits

\* the value of vinit after the if/elif (prev: vinit before the iteration)
SpeciesVinit(s, cd, prev) ==
    IF s.init = "amount"
    THEN LET amount == process_init_value(s.value)
         IN IF s.hasOnlySubstanceUnits THEN amount
            ELSE Mul(amount, DictGet(cd, s.compartment))
    ELSE IF s.init = "concentration"
    THEN LET concentration == process_init_value(s.value)
         IN IF s.hasOnlySubstanceUnits
            THEN Mul(concentration, DictGet(cd, s.compartment))
            ELSE concentration
    ELSE prev

-----------------------------------------------------------------------------
(* Strings are sequences of pieces; f-strings concatenate them *)
ReactantStr(formula) == <<"- (", formula, ")">>
ProductStr(formula) == <<"+ (", formula, ")">>

\* (variant: the term is overwritten instead of extended)
AddTermOverwrite(terms, sid, formula_str) == DictSet(terms, sid, formula_str)

\* lines 166-169 and 175-178: append with a blank, or start the term
AddTerm(terms, sid, formula_str) ==
    IF DictHas(terms, sid)
    THEN DictSet(terms, sid, DictGet(terms, sid) \o <<" ">> \o formula_str)
    ELSE DictSet(terms, sid, formula_str)

RECURSIVE AddReactants(_, _, _)
AddReactants(terms, refs, formula) ==
    IF refs = <<>> THEN terms
    ELSE AddReactants(AddTerm(terms, Head(refs), ReactantStr(formula)), Tail(refs), formula)

RECURSIVE AddProducts(_, _, _)
AddProducts(terms, refs, formula) ==
    IF refs = <<>> THEN terms
    ELSE AddProducts(AddTerm(terms, Head(refs), ProductStr(formula)), Tail(refs), formula)

\* one iteration of the reaction loop, lines 155-178
ReactionStep(terms, r) ==
    AddProducts(AddReactants(terms, r.reactants, r.formula), r.products, r.formula)

\* the whole reaction loop, lines 152-178
RECURSIVE ReactionLoop(_, _)
ReactionLoop(terms, reactions) ==
    IF reactions = <<>> THEN terms
    ELSE ReactionLoop(ReactionStep(terms, Head(reactions)), Tail(reactions))

ReactionStepsOf(reactions) == ReactionLoop(<<>>, reactions)

-----------------------------------------------------------------------------
(* amount/concentration rescaling, lines 180-189 *)
\* (variant: the cid left over from the species loop)
CompartmentOfLastSpecies(species, sid) == species[Len(species)].compartment

\* m_sbml.getSpecies(sid).getCompartment()
RECURSIVE CompartmentOfSpecies(_, _)
CompartmentOfSpecies(species, sid) ==
    IF species = <<>> THEN "none"
    ELSE IF Head(species).id = sid THEN Head(species).compartment
    ELSE CompartmentOfSpecies(Tail(species), sid)

ScaledStr(cid, formula_str) == <<"1.0 dimensionless/", cid, " * (">> \o formula_str \o <<")">>

RECURSIVE RescaleTerms(_, _, _)
RescaleTerms(terms, types, species) ==
    IF terms = <<>> THEN <<>>
    ELSE LET sid == Head(terms)[1]
             formula_str == Head(terms)[2]
             rest == RescaleTerms(Tail(terms), types, species)
         IN IF DictGet(types, sid) = "amount"
            THEN <<<<sid, formula_str>>>> \o rest
            ELSE IF DictGet(types, sid) = "concentration"
            THEN <<<<sid, ScaledStr(CompartmentOfSpecies(species, sid), formula_str)>>>> \o rest
            ELSE rest

-----------------------------------------------------------------------------
(* MathML, lines 191-227 and 250-308.  process_mathml_for_cellml hands the  *)
(* formula to libsbml's parser and writer; the result is kept as the        *)
(* element that wraps the formula.                                         *)
process_mathml_for_cellml(formula) == <<"mathml", formula>>

mathml_for_diff(vid, formula, ivid) ==
    [apply |-> "diff", bvar |-> ivid, ci |-> vid, rhs |-> process_mathml_for_cellml(formula)]

mathml_for_assignment(vid, formula) ==
    [apply |-> "eq", bvar |-> "", ci |-> vid, rhs |-> process_mathml_for_cellml(formula)]

time_name == "time"

AssignmentParts(d) == [n \in 1..Len(d) |-> mathml_for_assignment(d[n][1], d[n][2])]
DiffParts(d) == [n \in 1..Len(d) |-> mathml_for_diff(d[n][1], d[n][2], time_name)]

\* mathml_parts, in the order the three blocks append to it
MathmlParts(ar, rr, terms) == AssignmentParts(ar) \o DiffParts(rr) \o DiffParts(terms)

-----------------------------------------------------------------------------
(* The SBML models the conversion is run on *)
Floats == {NaN, Inf, Fin(0), Fin(2)}

SpeciesIds == {SpeciesIdPool[j] : j \in 1..MaxSpecies}

MkSpecies(j, a) ==
    [id |-> SpeciesIdPool[j], compartment |-> a.compartment,
     hasOnlySubstanceUnits |-> a.hosu, init |-> a.init, value |-> a.value]

\* species with an initial amount or an initial concentration
SpeciesAttrs(comps, values) ==
    [compartment : comps, hosu : BOOLEAN, init : {"amount", "concentration"}, value : values]

\* a species with neither initial amount nor concentration reports NaN for both
UnsetSpeciesAttrs(comps) ==
    [compartment : comps, hosu : BOOLEAN, init : {"none"}, value : {NaN}]

SpeciesLists(attrs) ==
    UNION {{[j \in 1..n |-> MkSpecies(j, f[j])] : f \in [1..n -> attrs]} : n \in 0..MaxSpecies}

\* the compartment c1 with any size
CompartmentLists(values) == {<<[id |-> CompartmentIds[1], size |-> v]>> : v \in values}

ParameterLists(values) ==
    UNION {{[j \in 1..n |-> [id |-> ParameterIds[j], value |-> f[j]]] : f \in [1..n -> values]}
           : n \in 0..Len(ParameterIds)}

\* the species references of a reaction: <<reactants, products>>
RefLists ==
    {<< <<>>, <<>> >>, << <<"s1">>, <<"s2">> >>, << <<"s2">>, <<"s1">> >>,
     << <<"s1", "s1">>, <<"s1">> >>, << <<>>, <<"s1">> >>, << <<"s2">>, <<>> >>,
     << <<"s1">>, <<"s1">> >>, << <<"s2">>, <<"s2">> >>}

ReactionShapes ==
    {[hasKineticLaw |-> TRUE, reactants |-> refs[1], products |-> refs[2]] : refs \in RefLists}
    \cup {[hasKineticLaw |-> FALSE, reactants |-> <<>>, products |-> <<>>]}

MkReaction(j, a) ==
    [hasKineticLaw |-> a.hasKineticLaw, formula |-> FormulaPool[j],
     reactants |-> a.reactants, products |-> a.products]

ReactionLists ==
    UNION {{[j \in 1..n |-> MkReaction(j, f[j])] : f \in [1..n -> ReactionShapes]}
           : n \in 0..MaxReactions}

ARule(v) == [variable |-> v, type |-> "assignment", formula |-> "f_a"]
RRule(v) == [variable |-> v, type |-> "rate", formula |-> "f_r"]
AlgRule == [variable |-> "", type |-> "algebraic", formula |-> "f_g"]

RuleLists == {<<>>, <<ARule("p1")>>, <<RRule("p1")>>, <<AlgRule>>,
              <<ARule("p1"), RRule("c1")>>, <<RRule("c1"), ARule("p1"), AlgRule>>}

EmptyModel ==
    [isModel |-> TRUE, compartments |-> <<>>, parameters |-> <<>>, species |-> <<>>,
     rules |-> <<>>, reactions |-> <<>>, events |-> 0, initialAssignments |-> 0]

FixedCompartments ==
    <<[id |-> "c1", size |-> Fin(2)], [id |-> "c2", size |-> NaN]>>

\* the document holds no model: doc.getModel() returns None
NoModels == {[EmptyModel EXCEPT !.isModel = FALSE]}

\* one compartment and species with every kind of value
EntityModels ==
    {[EmptyModel EXCEPT !.compartments = c, !.species = s] :
        c \in CompartmentLists(Floats),
        s \in SpeciesLists(SpeciesAttrs({"c1"}, Floats))}

\* parameters, and species spread over two compartments
CompartmentModels ==
    {[EmptyModel EXCEPT !.compartments = c, !.parameters = p, !.species = s] :
        c \in {FixedCompartments, SubSeq(FixedCompartments, 1, 1)},
        p \in ParameterLists({NaN, Fin(2)}),
        s \in SpeciesLists([compartment : {"c1", "c2"}, hosu : BOOLEAN, init : {"amount"},
                            value : {Fin(2)}]
                           \cup UnsetSpeciesAttrs({"c1", "c2"}))}

\* reaction networks; species j lives in compartment c1 (j odd) or c2 (j even)
NetworkSpecies ==
    UNION {{[j \in 1..n |->
                MkSpecies(j, [compartment |-> CompartmentIds[2 - (j % 2)], hosu |-> f[j],
                              init |-> "amount", value |-> Fin(2)])]
            : f \in [1..n -> BOOLEAN]} : n \in 0..MaxSpecies}

NetworkModels ==
    {[EmptyModel EXCEPT !.compartments = FixedCompartments, !.species = s, !.reactions = r] :
        s \in NetworkSpecies, r \in ReactionLists}

\* rules, events and initial assignments around one reaction s1 -> s2
OneReaction ==
    <<[hasKineticLaw |-> TRUE, formula |-> "k1",
       reactants |-> <<"s1">>, products |-> <<"s2">>]>>

TwoSpecies ==
    <<[id |-> "s1", compartment |-> "c1", hasOnlySubstanceUnits |-> TRUE,
       init |-> "amount", value |-> Fin(2)],
      [id |-> "s2", compartment |-> "c2", hasOnlySubstanceUnits |-> FALSE,
       init |-> "concentration", value |-> Fin(2)]>>

AnnotatedModels ==
    {[EmptyModel EXCEPT !.compartments = FixedCompartments,
                        !.parameters = <<[id |-> "p1", value |-> Fin(2)]>>,
                        !.species = TwoSpecies, !.reactions = rs, !.rules = ru,
                        !.events = e, !.initialAssignments = a] :
        rs \in {<<>>, OneReaction}, ru \in RuleLists, e \in 0..MaxEvents, a \in 0..MaxEvents}

SbmlModels ==
    NoModels \cup EntityModels \cup CompartmentModels \cup NetworkModels \cup AnnotatedModels

-----------------------------------------------------------------------------
(* convert_sbml2cellml *)
NoCellml == [exists |-> FALSE, components |-> <<>>, units |-> <<>>]
NoComponent == [exists |-> FALSE, variables |-> <<>>, math |-> <<"unset">>]

ConvStart ==
    /\ pc = "read"
    /\ i = 1
    /\ m_cellml = NoCellml
    /\ component = NoComponent
    /\ cdict = <<>>
    /\ species_types = <<>>
    /\ vinit = Unbound
    /\ arules = <<>>
    /\ rrules = <<>>
    /\ reaction_terms = <<>>
    /\ console = <<>>
    /\ raised = "none"

SimIdle ==
    /\ args = [start |-> 0, end |-> 0, steps |-> 0]
    /\ sim_pc = "idle"
    /\ file = [issues |-> <<>>]
    /\ document = [issues |-> <<>>, simulations |-> <<>>]
    /\ simulation = [exists |-> FALSE, initial_time |-> 0, output_start_time |-> 0,
                     output_end_time |-> 0, number_of_steps |-> 0]
    /\ instance = [issues |-> <<>>, settings |-> <<>>, tasks |-> <<>>]
    /\ k = 0
    /\ data_dict = <<>>
    /\ units = <<>>
    /\ stdout = <<>>
    /\ stages = <<>>
    /\ plotted = <<>>
    /\ sim_raised = "none"

Init ==
    /\ m_sbml \in SbmlModels
    /\ ConvStart
    /\ SimIdle

\* (variant: the model is not checked)
HasModelUnchecked(m) == TRUE

\* line 56: "if not m_sbml"
HasModel(m) == m.isModel

Raise(exception) ==
    /\ pc' = "raised"
    /\ raised' = exception

\* lines 54-57: no model in the document
RaiseNoModel ==
    /\ pc = "read"
    /\ ~HasModel(m_sbml)
    /\ Raise("SBML2CellMLConversionError")
    /\ UNCHANGED <<simVars, m_sbml, i, m_cellml, component, cdict, species_types, vinit,
                   arules, rrules, reaction_terms, console>>

\* lines 58-77: the model, its component "sbml", the units and the time variable
CreateModel ==
    /\ pc = "read"
    /\ HasModel(m_sbml)
    /\ m_cellml' = [exists |-> TRUE, components |-> <<"sbml">>, units |-> <<"per_second">>]
    /\ component' = [exists |-> TRUE,
                     variables |-> <<[name |-> time_name, init |-> Unset]>>,
                     math |-> <<"unset">>]
    /\ pc' = "compartments"
    /\ i' = 1
    /\ UNCHANGED <<simVars, m_sbml, cdict, species_types, vinit, arules, rrules, reaction_terms,
                   console, raised>>

\* (variant: the variable is created and never added)
AddVariableLost(comp, name, value) == comp

\* v = libcellml.Variable(name); v.setInitialValue(value); component.addVariable(v)
AddVariable(comp, name, value) ==
    [comp EXCEPT !.variables = Append(@, [name |-> name, init |-> value])]

\* lines 92-101
AddCompartment ==
    /\ pc = "compartments"
    /\ i <= Len(m_sbml.compartments)
    /\ LET c == m_sbml.compartments[i]
           cvalue == process_init_value(c.size)
       IN /\ console' = console \o NanWarning(c.id, c.size)
          /\ cdict' = DictSet(cdict, c.id, cvalue)
          /\ component' = AddVariable(component, c.id, cvalue)
    /\ i' = i + 1
    /\ UNCHANGED <<simVars, m_sbml, pc, m_cellml, species_types, vinit, arules, rrules,
                   reaction_terms, raised>>

NextLoop(from, to, n) ==
    /\ pc = from
    /\ i > n
    /\ pc' = to
    /\ i' = 1
    /\ UNCHANGED <<simVars, m_sbml, m_cellml, component, cdict, species_types, vinit, arules,
                   rrules, reaction_terms, console, raised>>

CompartmentsDone == NextLoop("compartments", "parameters", Len(m_sbml.compartments))

\* lines 105-113
AddParameter ==
    /\ pc = "parameters"
    /\ i <= Len(m_sbml.parameters)
    /\ LET p == m_sbml.parameters[i]
           pvalue == process_init_value(p.value)
       IN /\ console' = console \o NanWarning(p.id, p.value)
          /\ component' = AddVariable(component, p.id, pvalue)
    /\ i' = i + 1
    /\ UNCHANGED <<simVars, m_sbml, pc, m_cellml, cdict, species_types, vinit, arules, rrules,
                   reaction_terms, raised>>

ParametersDone == NextLoop("parameters", "species", Len(m_sbml.parameters))

SpeciesWarning(s) == IF s.init = "none" THEN <<>> ELSE NanWarning(s.id, s.value)

\* lines 118-136, the iteration completes
AddSpecies ==
    /\ pc = "species"
    /\ i <= Len(m_sbml.species)
    /\ LET s == m_sbml.species[i]
       IN /\ ReadsCdict(s) => DictHas(cdict, s.compartment)
          /\ SpeciesVinit(s, cdict, vinit) # Unbound
          /\ species_types' = DictSet(species_types, s.id, SpeciesType(s))
          /\ console' = console \o SpeciesWarning(s)
          /\ vinit' = SpeciesVinit(s, cdict, vinit)
          /\ component' = AddVariable(component, s.id, vinit')
    /\ i' = i + 1
    /\ UNCHANGED <<simVars, m_sbml, pc, m_cellml, cdict, arules, rrules, reaction_terms, raised>>

\* lines 128 and 131: cdict[cid] for a compartment that is not in the model
AddSpeciesKeyError ==
    /\ pc = "species"
    /\ i <= Len(m_sbml.species)
    /\ LET s == m_sbml.species[i]
       IN /\ ReadsCdict(s)
          /\ ~DictHas(cdict, s.compartment)
          /\ species_types' = DictSet(species_types, s.id, SpeciesType(s))
          /\ console' = console \o SpeciesWarning(s)
    /\ Raise("KeyError")
    /\ UNCHANGED <<simVars, m_sbml, i, m_cellml, component, cdict, vinit, arules, rrules,
                   reaction_terms>>

\* line 132: vinit was never assigned
AddSpeciesUnbound ==
    /\ pc = "species"
    /\ i <= Len(m_sbml.species)
    /\ LET s == m_sbml.species[i]
       IN /\ s.init = "none"
          /\ vinit = Unbound
          /\ species_types' = DictSet(species_types, s.id, SpeciesType(s))
    /\ Raise("UnboundLocalError")
    /\ UNCHANGED <<simVars, m_sbml, i, m_cellml, component, cdict, vinit, arules, rrules,
                   reaction_terms, console>>

SpeciesDone == NextLoop("species", "rules", Len(m_sbml.species))

\* lines 142-149
CollectRule ==
    /\ pc = "rules"
    /\ i <= Len(m_sbml.rules)
    /\ LET rule == m_sbml.rules[i]
       IN /\ arules' = IF rule.type = "assignment"
                       THEN DictSet(arules, rule.variable, rule.formula) ELSE arules
          /\ rrules' = IF rule.type = "rate"
                       THEN DictSet(rrules, rule.variable, rule.formula) ELSE rrules
    /\ i' = i + 1
    /\ UNCHANGED <<simVars, m_sbml, pc, m_cellml, component, cdict, species_types, vinit,
                   reaction_terms, console, raised>>

RulesDone == NextLoop("rules", "reactions", Len(m_sbml.rules))

\* lines 154-178
CollectReaction ==
    /\ pc = "reactions"
    /\ i <= Len(m_sbml.reactions)
    /\ m_sbml.reactions[i].hasKineticLaw
    /\ reaction_terms' = ReactionStep(reaction_terms, m_sbml.reactions[i])
    /\ i' = i + 1
    /\ UNCHANGED <<simVars, m_sbml, pc, m_cellml, component, cdict, species_types, vinit, arules,
                   rrules, console, raised>>

\* lines 155-156: r.getKineticLaw() is None
CollectReactionNoLaw ==
    /\ pc = "reactions"
    /\ i <= Len(m_sbml.reactions)
    /\ ~m_sbml.reactions[i].hasKineticLaw
    /\ Raise("AttributeError")
    /\ UNCHANGED <<simVars, m_sbml, i, m_cellml, component, cdict, species_types, vinit, arules,
                   rrules, reaction_terms, console>>

ReactionsDone == NextLoop("reactions", "rescale", Len(m_sbml.reactions))

\* lines 181-189
Rescale ==
    /\ pc = "rescale"
    /\ DictKeys(reaction_terms) \subseteq DictKeys(species_types)
    /\ reaction_terms' = RescaleTerms(reaction_terms, species_types, m_sbml.species)
    /\ pc' = "math"
    /\ UNCHANGED <<simVars, m_sbml, i, m_cellml, component, cdict, species_types, vinit, arules,
                   rrules, console, raised>>

\* line 183: species_types[sid] for a reference to a species the model does not list
RescaleKeyError ==
    /\ pc = "rescale"
    /\ ~(DictKeys(reaction_terms) \subseteq DictKeys(species_types))
    /\ Raise("KeyError")
    /\ UNCHANGED <<simVars, m_sbml, i, m_cellml, component, cdict, species_types, vinit, arules,
                   rrules, reaction_terms, console>>

\* lines 192-227
SetMath ==
    /\ pc = "math"
    /\ component' = [component EXCEPT
                        !.math = <<"<math>">> \o MathmlParts(arules, rrules, reaction_terms)
                                 \o <<"</math>">>]
    /\ pc' = "events"
    /\ i' = 1
    /\ UNCHANGED <<simVars, m_sbml, m_cellml, cdict, species_types, vinit, arules, rrules,
                   reaction_terms, console, raised>>

\* (variant: both loops print the event message)
NotConvertedCopied(what, j) == [msg |-> "Event NOT converted", id |-> ToString(j)]

\* lines 232 and 236
NotConverted(what, j) == [msg |-> what, id |-> ToString(j)]

\* lines 231-232
PrintEvent ==
    /\ pc = "events"
    /\ i <= m_sbml.events
    /\ console' = Append(console, NotConverted("Event NOT converted", i))
    /\ i' = i + 1
    /\ UNCHANGED <<simVars, m_sbml, pc, m_cellml, component, cdict, species_types, vinit, arules,
                   rrules, reaction_terms, raised>>

EventsDone == NextLoop("events", "assignments", m_sbml.events)

\* lines 235-236
PrintInitialAssignment ==
    /\ pc = "assignments"
    /\ i <= m_sbml.initialAssignments
    /\ console' = Append(console, NotConverted("InitialAssignment NOT converted", i))
    /\ i' = i + 1
    /\ UNCHANGED <<simVars, m_sbml, pc, m_cellml, component, cdict, species_types, vinit, arules,
                   rrules, reaction_terms, raised>>

\* line 238
Return == NextLoop("assignments", "returned", m_sbml.initialAssignments)

Next ==
    \/ RaiseNoModel
    \/ CreateModel
    \/ AddCompartment
    \/ CompartmentsDone
    \/ AddParameter
    \/ ParametersDone
    \/ AddSpecies
    \/ AddSpeciesKeyError
    \/ AddSpeciesUnbound
    \/ SpeciesDone
    \/ CollectRule
    \/ RulesDone
    \/ CollectReaction
    \/ CollectReactionNoLaw
    \/ ReactionsDone
    \/ Rescale
    \/ RescaleKeyError
    \/ SetMath
    \/ PrintEvent
    \/ EventsDone
    \/ PrintInitialAssignment
    \/ Return

Spec == Init /\ [][Next]_vars

-----------------------------------------------------------------------------
(* run_cellml_timecourse and plot_cellml_timecourse *)

\* what libopencor reports at a stage: no issue, or some
IssueLists == {<<>>, <<"issue 1", "issue 2">>}

\* lines 41-44, 48-51, 63-66, 70-73: the first issue's description, or "all good"
IssueReport(issues, good) == IF Len(issues) # 0 THEN issues[1] ELSE good

\* (variant: a stage with issues ends the call)
StopOnIssues(next, issues) == IF Len(issues) # 0 THEN "returned" ELSE next

\* the statement that follows a stage: the issues are printed and nothing else
Continue(next, issues) == next

Settings(start, end, steps) ==
    [initial_time |-> start, output_start_time |-> start,
     output_end_time |-> end, number_of_steps |-> steps]

\* the settings a call asks for, and those of the simulation the document
\* itself holds for the file
ArgSets == [start : {0, 1}, end : {2, 4}, steps : {1, 2}]
DocumentSettings == {Settings(a.start, a.end, a.steps) : a \in ArgSets}

\* the evenly spaced grid of a uniform time course, each point as <<numerator, denominator>>
Grid(s) ==
    [j \in 1..(s.number_of_steps + 1) |->
        <<s.output_start_time * s.number_of_steps
            + (j - 1) * (s.output_end_time - s.output_start_time),
          s.number_of_steps>>]

\* the names libopencor gives the states are component-qualified, hence distinct
StateNamePool == <<"sbml/s1", "sbml/s2", "sbml/s3", "sbml/s4">>
UnitPool == <<"mole", "litre", "dimensionless", "second">>

Task(n) ==
    [voi |-> <<>>, voi_name |-> "sbml/time", voi_unit |-> "second",
     states |-> [j \in 1..n |-> [name |-> StateNamePool[j], unit |-> UnitPool[j]]]]

TaskLists == {<<>>} \cup {<<Task(n)>> : n \in 0..MaxStates}

ConvIdle ==
    /\ m_sbml \in NoModels
    /\ pc = "idle"
    /\ i = 1
    /\ m_cellml = NoCellml
    /\ component = NoComponent
    /\ cdict = <<>>
    /\ species_types = <<>>
    /\ vinit = Unbound
    /\ arules = <<>>
    /\ rrules = <<>>
    /\ reaction_terms = <<>>
    /\ console = <<>>
    /\ raised = "none"

SimInit ==
    /\ ConvIdle
    /\ args \in ArgSets
    /\ sim_pc = "load"
    /\ file = [issues |-> <<>>]
    /\ document = [issues |-> <<>>, simulations |-> <<>>]
    /\ simulation = [exists |-> FALSE, initial_time |-> 0, output_start_time |-> 0,
                     output_end_time |-> 0, number_of_steps |-> 0]
    /\ instance = [issues |-> <<>>, settings |-> <<>>, tasks |-> <<>>]
    /\ k = 0
    /\ data_dict = <<>>
    /\ units = <<>>
    /\ stdout = <<>>
    /\ stages = <<>>
    /\ plotted = <<>>
    /\ sim_raised = "none"

\* lines 40-44
LoadFile ==
    /\ sim_pc = "load"
    /\ \E issues \in IssueLists :
        /\ file' = [issues |-> issues]
        /\ stdout' = Append(stdout, IssueReport(issues, "File: all good!"))
        /\ sim_pc' = Continue("document", issues)
    /\ stages' = Append(stages, "load")
    /\ UNCHANGED <<convVars, args, document, simulation, instance, k, data_dict, units,
                   plotted, sim_raised>>

\* lines 47-51: the document of a CellML file comes with its own simulation
BuildDocument ==
    /\ sim_pc = "document"
    /\ \E issues \in IssueLists, own \in DocumentSettings :
        /\ document' = [issues |-> issues, simulations |-> <<own>>]
        /\ stdout' = Append(stdout, IssueReport(issues, "Document: all good!"))
        /\ sim_pc' = Continue("configure", issues)
    /\ stages' = Append(stages, "document")
    /\ UNCHANGED <<convVars, args, file, simulation, instance, k, data_dict, units,
                   plotted, sim_raised>>

\* lines 54-60: a new simulation object gets the settings; it is not one of the
\* document's simulations ("FIXME: this is not working")
ConfigureSimulation ==
    /\ sim_pc = "configure"
    /\ simulation' = [exists |-> TRUE, initial_time |-> args.start,
                      output_start_time |-> args.start, output_end_time |-> args.end,
                      number_of_steps |-> args.steps]
    /\ sim_pc' = "instantiate"
    /\ stages' = Append(stages, "configure")
    /\ UNCHANGED <<convVars, args, file, document, instance, k, data_dict, units, stdout,
                   plotted, sim_raised>>

\* lines 62-66: the instance is made of what the document holds
Instantiate ==
    /\ sim_pc = "instantiate"
    /\ \E issues \in IssueLists, tasks \in TaskLists :
        /\ instance' = [issues |-> issues, settings |-> document.simulations[1],
                        tasks |-> tasks]
        /\ stdout' = Append(stdout, IssueReport(issues, "Instance: all good!"))
        /\ sim_pc' = Continue("run", issues)
    /\ stages' = Append(stages, "instantiate")
    /\ UNCHANGED <<convVars, args, file, document, simulation, k, data_dict, units,
                   plotted, sim_raised>>

\* lines 69-73
Run ==
    /\ sim_pc = "run"
    /\ \E issues \in IssueLists :
        /\ instance' = [instance EXCEPT
                           !.issues = issues,
                           !.tasks = [j \in 1..Len(@) |->
                                         [@[j] EXCEPT !.voi = Grid(instance.settings)]]]
        /\ stdout' = Append(stdout, IssueReport(issues, "Instance running: all good!"))
        /\ sim_pc' = Continue("extract", issues)
    /\ stages' = Append(stages, "run")
    /\ UNCHANGED <<convVars, args, file, document, simulation, k, data_dict, units,
                   plotted, sim_raised>>

\* lines 76-91
Extract ==
    /\ sim_pc = "extract"
    /\ instance.tasks # <<>>
    /\ LET instance_task == instance.tasks[1]
       IN /\ data_dict' = <<<<instance_task.voi_name, instance_task.voi>>>>
          /\ units' = <<<<instance_task.voi_name, instance_task.voi_unit>>>>
    /\ k' = 0
    /\ sim_pc' = "states"
    /\ stages' = Append(stages, "extract")
    /\ UNCHANGED <<convVars, args, file, document, simulation, instance, stdout, plotted,
                   sim_raised>>

\* line 76: instance.tasks[0] of an instance without task
ExtractIndexError ==
    /\ sim_pc = "extract"
    /\ instance.tasks = <<>>
    /\ sim_pc' = "raised"
    /\ sim_raised' = "IndexError"
    /\ stages' = Append(stages, "extract")
    /\ UNCHANGED <<convVars, args, file, document, simulation, instance, k, data_dict,
                   units, stdout, plotted>>

n_state == Len(instance.tasks[1].states)

\* (variant: the unit is not recorded)
StateUnitNone(u, name, unit) == u

\* line 97

StateUnit(u, name, unit) == DictSet(u, name, unit)

\* lines 94-97
AddState ==
    /\ sim_pc = "states"
    /\ k < n_state
    /\ LET state == instance.tasks[1].states[k + 1]
       IN /\ data_dict' = DictSet(data_dict, state.name, <<"state", k>>)
          /\ units' = StateUnit(units, state.name, state.unit)
    /\ k' = k + 1
    /\ UNCHANGED <<convVars, args, sim_pc, file, document, simulation, instance, stdout,
                   stages, plotted, sim_raised>>

\* line 99
ReturnTable ==
    /\ sim_pc = "states"
    /\ k >= n_state
    /\ sim_pc' = "returned"
    /\ UNCHANGED <<convVars, args, file, document, simulation, instance, k, data_dict,
                   units, stdout, stages, plotted, sim_raised>>

\* pd.DataFrame(data_dict).columns
Columns == DictKeySeq(data_dict)

\* lines 14-32 on the returned table and units
Plot ==
    /\ sim_pc = "returned"
    /\ IF \A n \in 1..Len(Columns) : DictHas(units, Columns[n])
       THEN /\ plotted' = [n \in 1..Len(Columns) |->
                              <<Columns[n], DictGet(units, Columns[n])>>]
            /\ sim_pc' = "plotted"
            /\ UNCHANGED sim_raised
       ELSE /\ sim_raised' = "KeyError"
            /\ sim_pc' = "raised"
            /\ UNCHANGED plotted
    /\ UNCHANGED <<convVars, args, file, document, simulation, instance, k, data_dict,
                   units, stdout, stages>>

SimNext ==
    \/ LoadFile
    \/ BuildDocument
    \/ ConfigureSimulation
    \/ Instantiate
    \/ Run
    \/ Extract
    \/ ExtractIndexError
    \/ AddState
    \/ ReturnTable
    \/ Plot

SimSpec == SimInit /\ [][SimNext]_vars

-----------------------------------------------------------------------------
(* Properties of convert_sbml2cellml *)

VariableNames == [n \in 1..Len(component.variables) |-> component.variables[n].name]
IdsOf(list) == {list[n].id : n \in 1..Len(list)}
EntityIds == IdsOf(m_sbml.compartments) \cup IdsOf(m_sbml.parameters) \cup IdsOf(m_sbml.species)

\* the position of the variable of compartment n, parameter n, species n
CompartmentVar(n) == 1 + n
ParameterVar(n) == 1 + Len(m_sbml.compartments) + n
SpeciesVar(n) == 1 + Len(m_sbml.compartments) + Len(m_sbml.parameters) + n

\* C1: when the conversion returns, the component "sbml" is the only component and
\* holds exactly one variable per compartment, parameter and species id plus the
\* variable "time", and no other: 1 + |C| + |P| + |S| variables.
C1_OneVariablePerEntity ==
    pc = "returned" =>
        /\ m_cellml.components = <<"sbml">>
        /\ Len(VariableNames) = 1 + Len(m_sbml.compartments) + Len(m_sbml.parameters)
                                  + Len(m_sbml.species)
        /\ \A id \in EntityIds \cup {time_name} :
              Cardinality({n \in 1..Len(VariableNames) : VariableNames[n] = id}) = 1
        /\ \A n \in 1..Len(VariableNames) : VariableNames[n] \in EntityIds \cup {time_name}

C1_Witness ==
    /\ pc = "returned"
    /\ Len(m_sbml.compartments) > 0
    /\ Len(m_sbml.parameters) > 0
    /\ Len(m_sbml.species) = MaxSpecies
    /\ m_sbml.species[MaxSpecies].init = "none"

\* C2: without a model the call raises SBML2CellMLConversionError before a CellML
\* model, component or variable exists and never returns; with a model that error
\* is never raised.
C2_NoModelRaises ==
    /\ (~m_sbml.isModel /\ pc \notin {"read", "idle"}) =>
          /\ pc = "raised"
          /\ raised = "SBML2CellMLConversionError"
          /\ ~m_cellml.exists
          /\ ~component.exists
          /\ component.variables = <<>>
    /\ m_sbml.isModel => raised # "SBML2CellMLConversionError"

C2_Witness ==
    /\ pc = "raised"
    /\ raised = "SBML2CellMLConversionError"
    /\ ~m_sbml.isModel

\* the species references of the reactions, in reaction-list order, reactants
\* before products inside one reaction
RefsOf(r) ==
    [n \in 1..Len(r.reactants) |-> [species |-> r.reactants[n], sign |-> "-", formula |-> r.formula]]
    \o [n \in 1..Len(r.products) |-> [species |-> r.products[n], sign |-> "+", formula |-> r.formula]]

RECURSIVE AllRefs(_)
AllRefs(reactions) ==
    IF reactions = <<>> THEN <<>> ELSE RefsOf(Head(reactions)) \o AllRefs(Tail(reactions))

RefsTo(reactions, sid) == SelectSeq(AllRefs(reactions), LAMBDA ref : ref.species = sid)

SignedTerm(ref) == <<IF ref.sign = "-" THEN "- (" ELSE "+ (", ref.formula, ")">>

RECURSIVE JoinTerms(_)
JoinTerms(refs) ==
    IF refs = <<>> THEN <<>>
    ELSE IF Len(refs) = 1 THEN SignedTerm(refs[1])
    ELSE JoinTerms(SubSeq(refs, 1, Len(refs) - 1)) \o <<" ">> \o SignedTerm(refs[Len(refs)])

ExpectedTerm(reactions, sid) == JoinTerms(RefsTo(reactions, sid))

AllHaveKineticLaw == \A n \in 1..Len(m_sbml.reactions) : m_sbml.reactions[n].hasKineticLaw

ReferencedIds(reactions) == {AllRefs(reactions)[n].species : n \in 1..Len(AllRefs(reactions))}

\* the equations SetMath wrote for the reaction terms: the last entries of the math
MathBody == SubSeq(component.math, 2, Len(component.math) - 1)
ReactionEquations ==
    SubSeq(MathBody, Len(arules) + Len(rrules) + 1, Len(MathBody))

\* C3: with a kinetic law on every reaction, the term accumulated for a species
\* is the concatenation, in reaction-list order and reactants before products,
\* of one "- (formula)" per reactant reference and one "+ (formula)" per product
\* reference to it; a species no reaction references has no term and no reaction
\* differential equation.
C3_AccumulatedTerms ==
    /\ (pc \in {"reactions", "rescale"} /\ AllHaveKineticLaw) =>
          LET done == IF pc = "reactions" THEN SubSeq(m_sbml.reactions, 1, i - 1)
                      ELSE m_sbml.reactions
          IN /\ DictKeys(reaction_terms) = ReferencedIds(done)
             /\ \A sid \in ReferencedIds(done) :
                   DictGet(reaction_terms, sid) = ExpectedTerm(done, sid)
             /\ Len(reaction_terms) = Cardinality(ReferencedIds(done))
    /\ pc \in {"events", "assignments", "returned"} =>
          /\ Len(ReactionEquations) = Cardinality(ReferencedIds(m_sbml.reactions))
          /\ \A n \in 1..Len(ReactionEquations) :
                /\ ReactionEquations[n].apply = "diff"
                /\ ReactionEquations[n].ci \in ReferencedIds(m_sbml.reactions)

C3_Witness ==
    /\ pc = "rescale"
    /\ Len(m_sbml.reactions) = MaxReactions
    /\ \E sid \in SpeciesIds :
          /\ Len(RefsTo(m_sbml.reactions, sid)) >= 4
          /\ \E n \in 1..3 : RefsTo(m_sbml.reactions, sid)[n].sign = "+"
                             /\ RefsTo(m_sbml.reactions, sid)[n + 1].sign = "-"
    /\ \E n \in 1..Len(m_sbml.species) : m_sbml.species[n].id \notin DictKeys(reaction_terms)

\* C4: for a species with an accumulated term, the right-hand side of its
\* differential equation is the term unchanged when the species has
\* hasOnlySubstanceUnits and "1.0 dimensionless/<its own compartment> * (term)"
\* otherwise; rescaling keeps exactly the keys the accumulation produced.
C4_AmountOrConcentration ==
    pc \in {"math", "events", "assignments", "returned"} =>
        /\ DictKeySeq(reaction_terms)
              = DictKeySeq(ReactionStepsOf(m_sbml.reactions))
        /\ \A n \in 1..Len(m_sbml.species) :
              LET s == m_sbml.species[n]
                  term == ExpectedTerm(m_sbml.reactions, s.id)
                  rhs == IF s.hasOnlySubstanceUnits THEN term
                         ELSE <<"1.0 dimensionless/", s.compartment, " * (">> \o term \o <<")">>
              IN s.id \in ReferencedIds(m_sbml.reactions) =>
                    /\ DictGet(reaction_terms, s.id) = rhs
                    /\ pc # "math" =>
                          \E e \in 1..Len(ReactionEquations) :
                              ReactionEquations[e]
                                 = [apply |-> "diff", bvar |-> "time", ci |-> s.id,
                                    rhs |-> <<"mathml", rhs>>]

C4_Witness ==
    /\ pc = "returned"
    /\ \E n \in 1..Len(m_sbml.species), a \in 1..Len(m_sbml.species) :
          /\ n < Len(m_sbml.species)
          /\ ~m_sbml.species[n].hasOnlySubstanceUnits
          /\ m_sbml.species[n].compartment # m_sbml.species[Len(m_sbml.species)].compartment
          /\ m_sbml.species[n].id \in DictKeys(reaction_terms)
          /\ m_sbml.species[a].hasOnlySubstanceUnits
          /\ m_sbml.species[a].id \in DictKeys(reaction_terms)

-----------------------------------------------------------------------------
(* Properties of run_cellml_timecourse *)

FirstTask == instance.tasks[1]

\* C5: the simulation that is instantiated and run has the start, end and steps
\* the call was given, and the variable of integration is the grid they define.
C5_RunsGivenSettings ==
    (sim_pc \in {"extract", "states", "returned", "plotted"} /\ instance.tasks # <<>>) =>
        /\ instance.settings.output_start_time = args.start
        /\ instance.settings.output_end_time = args.end
        /\ instance.settings.number_of_steps = args.steps
        /\ FirstTask.voi = Grid(Settings(args.start, args.end, args.steps))

StateColumns == [j \in 1..Len(FirstTask.states) |-> FirstTask.states[j].name]

\* C6: the returned table has the variable of integration as first column, then
\* one column per state variable 0..state_count-1, and the units dictionary has
\* an entry for exactly these columns, so plotting finds a unit for each.
C6_ColumnsAndUnits ==
    /\ sim_pc \in {"returned", "plotted"} =>
          /\ Columns = <<FirstTask.voi_name>> \o StateColumns
          /\ DictGet(data_dict, FirstTask.voi_name) = FirstTask.voi
          /\ \A j \in 1..Len(StateColumns) :
                /\ DictGet(data_dict, StateColumns[j]) = <<"state", j - 1>>
                /\ DictHas(units, StateColumns[j])
                /\ DictGet(units, StateColumns[j]) = FirstTask.states[j].unit
          /\ DictKeys(units) = {Columns[n] : n \in 1..Len(Columns)}
          /\ Len(units) = Len(Columns)
          /\ DictGet(units, FirstTask.voi_name) = FirstTask.voi_unit
    /\ sim_pc = "plotted" =>
          /\ Len(plotted) = 1 + Len(FirstTask.states)
          /\ \A n \in 1..Len(plotted) : plotted[n] = <<Columns[n], DictGet(units, Columns[n])>>
    /\ sim_raised # "KeyError"

C6_Witness ==
    /\ sim_pc = "plotted"
    /\ Len(FirstTask.states) = MaxStates
    /\ MaxStates >= 2

StageOrder == <<"load", "document", "configure", "instantiate", "run", "extract">>

IsPrefix(a, b) == Len(a) <= Len(b) /\ a = SubSeq(b, 1, Len(a))

\* C7: the stages run in the order load, document, configure, instantiate, run,
\* extract; issues at a stage only print the first issue's description, and every
\* call gets to the extraction of the results whatever issues were reported.
C7_StagesInOrder ==
    /\ IsPrefix(stages, StageOrder)
    /\ sim_pc \notin {"idle", "load", "document", "configure", "instantiate", "run", "extract"}
          => stages = StageOrder
    /\ sim_raised # "none" => stages = StageOrder
    /\ Len(stdout) = Cardinality({n \in 1..Len(stages) :
                                     stages[n] \in {"load", "document", "instantiate", "run"}})
    /\ Len(stdout) >= 1 =>
          stdout[1] = (IF file.issues = <<>> THEN "File: all good!" ELSE file.issues[1])
    /\ Len(stdout) >= 2 =>
          stdout[2] = (IF document.issues = <<>> THEN "Document: all good!"
                       ELSE document.issues[1])
    /\ Len(stdout) = 3 =>
          stdout[3] = (IF instance.issues = <<>> THEN "Instance: all good!"
                       ELSE instance.issues[1])
    /\ Len(stdout) = 4 =>
          /\ stdout[3] \in {"Instance: all good!", "issue 1"}
          /\ stdout[4] = (IF instance.issues = <<>> THEN "Instance running: all good!"
                          ELSE instance.issues[1])

C7_Witness ==
    /\ sim_pc = "returned"
    /\ file.issues # <<>>
    /\ document.issues # <<>>
    /\ stdout[3] = "issue 1"
    /\ instance.issues # <<>>
    /\ stages = StageOrder

-----------------------------------------------------------------------------
(* The conversion as a function of the model *)

CompartmentVariables(cs) ==
    [n \in 1..Len(cs) |-> [name |-> cs[n].id, init |-> process_init_value(cs[n].size)]]

ParameterVariables(ps) ==
    [n \in 1..Len(ps) |-> [name |-> ps[n].id, init |-> process_init_value(ps[n].value)]]

RECURSIVE CompartmentDict(_)
CompartmentDict(cs) ==
    IF cs = <<>> THEN <<>>
    ELSE DictSet(CompartmentDict(SubSeq(cs, 1, Len(cs) - 1)), cs[Len(cs)].id,
                 process_init_value(cs[Len(cs)].size))

RECURSIVE SpeciesVariables(_, _, _)
SpeciesVariables(species, cd, prev) ==
    IF species = <<>> THEN <<>>
    ELSE LET v == SpeciesVinit(Head(species), cd, prev)
         IN <<[name |-> Head(species).id, init |-> v]>> \o SpeciesVariables(Tail(species), cd, v)

RECURSIVE SpeciesTypes(_)
SpeciesTypes(species) ==
    IF species = <<>> THEN <<>>
    ELSE DictSet(SpeciesTypes(SubSeq(species, 1, Len(species) - 1)),
                 species[Len(species)].id, SpeciesType(species[Len(species)]))

RECURSIVE RuleDict(_, _)
RuleDict(rules, type) ==
    IF rules = <<>> THEN <<>>
    ELSE LET rule == rules[Len(rules)]
             before == RuleDict(SubSeq(rules, 1, Len(rules) - 1), type)
         IN IF rule.type = type THEN DictSet(before, rule.variable, rule.formula) ELSE before

ConvertedComponent(compartments, parameters, species, rules, reactions) ==
    [exists |-> TRUE,
     variables |-> <<[name |-> time_name, init |-> Unset]>>
                   \o CompartmentVariables(compartments)
                   \o ParameterVariables(parameters)
                   \o SpeciesVariables(species, CompartmentDict(compartments), Unbound),
     math |-> <<"<math>">>
              \o MathmlParts(RuleDict(rules, "assignment"), RuleDict(rules, "rate"),
                             RescaleTerms(ReactionStepsOf(reactions), SpeciesTypes(species),
                                          species))
              \o <<"</math>">>]

MessageCount(what) == Cardinality({n \in 1..Len(console) : console[n].msg = what})

\* C8: events and initial assignments are not converted: the variables, initial
\* values and math of the result are those of the model without its events and
\* initial assignments, and each event and each initial assignment gives exactly
\* one "NOT converted" message, printed after the math is set on the component.
C8_EventsNotConverted ==
    /\ pc = "returned" =>
          /\ component = ConvertedComponent(m_sbml.compartments, m_sbml.parameters,
                                            m_sbml.species, m_sbml.rules, m_sbml.reactions)
          /\ MessageCount("Event NOT converted") = m_sbml.events
          /\ MessageCount("InitialAssignment NOT converted") = m_sbml.initialAssignments
    /\ component.math = <<"unset">> =>
          /\ MessageCount("Event NOT converted") = 0
          /\ MessageCount("InitialAssignment NOT converted") = 0
    /\ pc = "events" => MessageCount("Event NOT converted") = i - 1
    /\ pc = "assignments" => MessageCount("InitialAssignment NOT converted") = i - 1

C8_Witness ==
    /\ pc = "returned"
    /\ m_sbml.events = MaxEvents
    /\ m_sbml.initialAssignments = MaxEvents
    /\ MaxEvents >= 1
    /\ m_sbml.reactions # <<>>
    /\ Len(m_sbml.rules) >= 2

-----------------------------------------------------------------------------
(* Initial values *)

Processed(value) == IF isnan(value) THEN Fin(1) ELSE value

HasVariable(position) == position <= Len(component.variables)
InitOf(position) == component.variables[position].init

SetSpecies == {n \in 1..Len(m_sbml.species) :
                  HasVariable(SpeciesVar(n)) /\ m_sbml.species[n].init # "none"}

\* C9 as stated: no compartment, parameter or species with a set initial amount
\* or concentration gets NaN as initial value, and cdict holds no NaN.
C9_NoNaNInitialValue ==
    /\ \A n \in 1..Len(m_sbml.compartments) :
          HasVariable(CompartmentVar(n)) => ~isnan(InitOf(CompartmentVar(n)))
    /\ \A n \in 1..Len(m_sbml.parameters) :
          HasVariable(ParameterVar(n)) => ~isnan(InitOf(ParameterVar(n)))
    /\ \A n \in SetSpecies : ~isnan(InitOf(SpeciesVar(n)))
    /\ \A n \in 1..Len(cdict) : ~isnan(cdict[n][2])

ZeroTimesInfinity(x, y) == {x, y} = {Fin(0), Inf}

\* C9, amended: compartment and parameter variables and cdict hold the processed
\* value (1.0 for NaN, the value itself otherwise), never NaN; a species with a
\* set initial amount or concentration gets NaN only as the product of a zero and
\* an infinite factor (its processed value and its compartment's processed size).
C9_NaNOnlyFromZeroTimesInfinity ==
    /\ \A n \in 1..Len(m_sbml.compartments) :
          HasVariable(CompartmentVar(n)) =>
             /\ InitOf(CompartmentVar(n)) = Processed(m_sbml.compartments[n].size)
             /\ ~isnan(InitOf(CompartmentVar(n)))
             /\ DictGet(cdict, m_sbml.compartments[n].id) = InitOf(CompartmentVar(n))
    /\ \A n \in 1..Len(m_sbml.parameters) :
          HasVariable(ParameterVar(n)) =>
             /\ InitOf(ParameterVar(n)) = Processed(m_sbml.parameters[n].value)
             /\ ~isnan(InitOf(ParameterVar(n)))
    /\ \A n \in 1..Len(cdict) : ~isnan(cdict[n][2])
    /\ \A n \in SetSpecies :
          LET s == m_sbml.species[n]
          IN IF ReadsCdict(s)
             THEN isnan(InitOf(SpeciesVar(n)))
                     <=> ZeroTimesInfinity(Processed(s.value), DictGet(cdict, s.compartment))
             ELSE InitOf(SpeciesVar(n)) = Processed(s.value)

C9_Witness ==
    /\ pc = "returned"
    /\ \E n \in SetSpecies :
          /\ isnan(m_sbml.species[n].value)
          /\ ReadsCdict(m_sbml.species[n])
          /\ \E c \in 1..Len(m_sbml.compartments) :
                /\ m_sbml.compartments[c].id = m_sbml.species[n].compartment
                /\ isnan(m_sbml.compartments[c].size)
          /\ InitOf(SpeciesVar(n)) = Fin(1)

IsFinite(x) == x[1] = "fin"

\* C10: the initial value of a species is in the quantity of its type: the amount
\* for hasOnlySubstanceUnits (initial amount, or initial concentration times the
\* compartment size), the concentration otherwise (initial concentration, or
\* initial amount divided by the compartment size).
C10_InitialValueInTypeQuantity ==
    \A n \in SetSpecies :
        LET s == m_sbml.species[n]
            value == Processed(s.value)
            init == InitOf(SpeciesVar(n))
        IN /\ (s.hasOnlySubstanceUnits /\ s.init = "amount") => init = value
           /\ (s.hasOnlySubstanceUnits /\ s.init = "concentration") =>
                 init = Mul(value, DictGet(cdict, s.compartment))
           /\ (~s.hasOnlySubstanceUnits /\ s.init = "concentration") => init = value
           /\ (~s.hasOnlySubstanceUnits /\ s.init = "amount") =>
                 LET size == DictGet(cdict, s.compartment)
                 IN (IsFinite(size) /\ ~IsZero(size) /\ IsFinite(value)) =>
                       \* init = value / size
                       Mul(init, size) = value

AddedSpecies == {n \in 1..Len(m_sbml.species) : HasVariable(SpeciesVar(n))}

\* C11: the initial value of every species, also of one with neither initial
\* amount nor initial concentration, comes from its own attributes and the size
\* of its own compartment alone: it is the value the species gets when nothing
\* precedes it, whatever its position, and the conversion does not fail on a
\* species without initial value.
C11_InitialValueOwnAttributesOnly ==
    /\ raised # "UnboundLocalError"
    /\ \A n \in AddedSpecies :
          InitOf(SpeciesVar(n)) = SpeciesVinit(m_sbml.species[n], cdict, Unbound)

====
